---- MODULE Spec2Model ----
(***************************************************************************)
(* A model of three parts of fhicl-cpp:                                    *)
(*   - the fhicl-dump executable (tools/fhicl-dump.cc),                    *)
(*   - the OptionalTuple parameter descriptor (types/OptionalTuple.h),     *)
(*   - Table validation of bounded sequences and tuples with defaults      *)
(*     (types/Table.h, test/types/bounded_sequences_with_defaults_t.cc).   *)
(* Each part has its own specification (SpecDump, SpecTuple, SpecTable);   *)
(* the variables of the other parts stay at their initial values.          *)
(***************************************************************************)
EXTENDS Integers, Sequences, FiniteSets, TLC

VARIABLES
  \* ---- fhicl-dump ----
  argv,      \* the command line, as the options it carries
  doc,       \* what parsing the input document does: "ok", "cet::exception", "other"
  pc,        \* position of main
  opts,      \* main's Options object
  policy,    \* the filepath_maker built by get_policy ("" when none)
  parsed,    \* TRUE once parse_document has been entered
  ending,    \* "running", "returned" or "terminated" (std::terminate)
  status,    \* <<>> or <<k>>: main returned k
  cout,      \* what was written to standard output
  cerr,      \* what was written to standard error
  ofile,     \* the file named by -o: whether it was opened, and its content
  \* ---- OptionalTuple<TYPES...> ----
  N,          \* sizeof...(TYPES)
  stack0,     \* the name stack when the construction begins
  nameStack,  \* NameStackRegistry: names of the descriptors under construction
  value_,     \* ftype value_: slot -> shared_ptr to the element descriptor
  has_value_, \* bool has_value_
  tpc,        \* position: in the constructor, idle, or in a walk
  fin_i,      \* the argument i of finalize_tuple_elements
  pack,       \* the slots still in the parameter pack (elem, others...)
  visited_nc, \* slots the mutable walker was applied to in its current/last walk
  visited_c,  \* the same for the read-only walker
  done_nc,    \* the last mutable walk has finished
  done_c,     \* the last read-only walk has finished
  r,          \* the caller's rtype object handed to operator()
  ret,        \* <<>> or <<b>>: operator() returned b
  last,       \* the last operation that completed
  input,      \* the input most recently validated: is the key present, its elements
  valid,      \* the most recent validation succeeded
  ends,       \* calls of end_of_ctor made by the OptionalTuple constructor
  \* ---- Table<T> with a bounded sequence or a tuple with a default ----
  schema,       \* "ArrayConfig" or "TupleConfig"
  pset,         \* the ParameterSet handed to validate_ParameterSet
  keysToIgnore, \* its second argument
  slot,         \* the value slot of the descriptor: its elements
  outcome,      \* "", "ok" or "validationException"
  errors,       \* the diagnostics the validationException bundles
  vpc           \* position of validateConfig

dumpVars == <<argv, doc, pc, opts, policy, parsed, ending, status, cout, cerr, ofile>>

tupleVars == <<N, stack0, nameStack, value_, has_value_, tpc, fin_i, pack,
               visited_nc, visited_c, done_nc, done_c, r, ret, last, input,
               valid, ends>>

tableVars == <<schema, pset, keysToIgnore, slot, outcome, errors, vpc>>

vars == <<dumpVars, tupleVars, tableVars>>

-----------------------------------------------------------------------------
(* Bounds *)

\* lookup-policy codes tried on the command line are -1 .. MaxPolicyCode
MaxPolicyCode == 4

-----------------------------------------------------------------------------
(* The parts a specification does not run *)

DumpIdle ==
  /\ argv = [h |-> FALSE, malformed |-> FALSE, a |-> FALSE, pa |-> FALSE,
             q |-> FALSE, c |-> "", o |-> "", p |-> "", l |-> <<>>]
  /\ doc = "ok"
  /\ pc = "idle"
  /\ opts = [mode |-> "raw", quiet |-> FALSE, output_filename |-> "",
             input_filename |-> "", lookup_policy |-> 0, lookup_path |-> ""]
  /\ policy = ""
  /\ parsed = FALSE
  /\ ending = "running"
  /\ status = <<>>
  /\ cout = <<>>
  /\ cerr = <<>>
  /\ ofile = [opened |-> FALSE, content |-> <<>>]

TupleIdle ==
  /\ N = 0
  /\ stack0 = <<>>
  /\ nameStack = <<>>
  /\ value_ = <<>>
  /\ has_value_ = FALSE
  /\ tpc = "none"
  /\ fin_i = 0
  /\ pack = <<>>
  /\ visited_nc = <<>>
  /\ visited_c = <<>>
  /\ done_nc = FALSE
  /\ done_c = FALSE
  /\ r = <<>>
  /\ ret = <<>>
  /\ last = ""
  /\ input = [present |-> FALSE, elems |-> <<>>]
  /\ valid = FALSE
  /\ ends = 0

TableIdle ==
  /\ schema = ""
  /\ pset = [present |-> FALSE, isseq |-> FALSE, elems |-> <<>>, extra |-> FALSE]
  /\ keysToIgnore = {}
  /\ slot = <<>>
  /\ outcome = ""
  /\ errors = {}
  /\ vpc = "none"

-----------------------------------------------------------------------------
(* fhicl-dump *)

fhicl_env_var == "FHICL_FILE_PATH"

\* Error categories
help == "Help"
processing == "Processing"
config == "Configuration"

\* struct Options, default-constructed
Options == [mode |-> "raw", quiet |-> FALSE, output_filename |-> "",
            input_filename |-> "", lookup_policy |-> 0, lookup_path |-> ""]

PolicyCodes == -1 .. MaxPolicyCode

\* The command lines: h, a, pa, q are the switches --help, --annotate,
\* --prefix-annotate, --quiet; c, o, p are the values of --config, --output,
\* --path ("" when the option is not given); l is <<>> or <<code>> for
\* --lookup-policy; malformed is a command line boost::program_options rejects
\* (an unknown option, a missing or ill-typed value).
CommandLines ==
  [h : BOOLEAN, malformed : BOOLEAN, a : BOOLEAN, pa : BOOLEAN, q : BOOLEAN,
   c : {"", "in.fcl"}, o : {"", "out.fcl"}, p : {"", "/fcl/dir"},
   l : {<<>>} \cup {<<k>> : k \in PolicyCodes}]

Thrown(category, o) == [thrown |-> category, opts |-> o]
Returned(o) == [thrown |-> "", opts |-> o]

\* cet::parsed_program_options: stores the option values (with their
\* default_value when the option is absent), or raises "Processing"
parsed_program_options(args) ==
  IF args.malformed
    THEN Thrown(processing, Options)
    ELSE Returned([Options EXCEPT
           !.input_filename = args.c,
           !.output_filename = args.o,
           !.lookup_policy = IF args.l = <<>> THEN 1 ELSE args.l[1],
           !.lookup_path = IF args.p = "" THEN fhicl_env_var ELSE args.p])

\* process_arguments without the check of --annotate against --prefix-annotate
process_arguments_no_exclusion(args) ==
  LET vm == parsed_program_options(args)
      annotate == args.a
      prefix_annotate == args.pa
      mode1 == IF annotate THEN "annotated" ELSE vm.opts.mode
      mode2 == IF prefix_annotate THEN "prefix_annotated" ELSE mode1
  IN  IF vm.thrown # "" THEN vm
      ELSE IF args.h THEN Thrown(help, vm.opts)
      ELSE IF args.q /\ (annotate \/ prefix_annotate) THEN Thrown(config, vm.opts)
      ELSE IF args.c = "" THEN Thrown(config, vm.opts)
      ELSE Returned([vm.opts EXCEPT !.quiet = args.q, !.mode = mode2])

process_arguments(args) ==
  LET vm == parsed_program_options(args)
      annotate == args.a
      prefix_annotate == args.pa
      mode1 == IF annotate THEN "annotated" ELSE vm.opts.mode
      mode2 == IF prefix_annotate THEN "prefix_annotated" ELSE mode1
  IN  IF vm.thrown # "" THEN vm
      ELSE IF args.h THEN Thrown(help, vm.opts)
      ELSE IF args.q /\ (annotate \/ prefix_annotate) THEN Thrown(config, vm.opts)
      ELSE IF annotate /\ prefix_annotate THEN Thrown(config, vm.opts)
      ELSE IF args.c = "" THEN Thrown(config, vm.opts)
      ELSE Returned([vm.opts EXCEPT !.quiet = args.q, !.mode = mode2])

get_policy(lookup_policy, lookup_path) ==
  CASE lookup_policy = 0 -> [thrown |-> "", maker |-> "cet::filepath_maker"]
    [] lookup_policy = 1 -> [thrown |-> "", maker |-> "cet::filepath_lookup"]
    [] lookup_policy = 2 -> [thrown |-> "", maker |-> "cet::filepath_lookup_nonabsolute"]
    [] lookup_policy = 3 -> [thrown |-> "", maker |-> "cet::filepath_lookup_after1"]
    [] OTHER -> [thrown |-> "std::runtime_error", maker |-> ""]

\* form_pset: parse_document then make_ParameterSet; the document decides
form_pset(filename, lookup_policy) ==
  IF doc = "ok" THEN [thrown |-> "", pset |-> <<"pset", filename>>]
                ELSE [thrown |-> doc, pset |-> <<>>]

\* ParameterSet::to_indented_string(0, mode)
to_indented_string(ps, mode) == <<ps, mode>>

\* What the tool writes to a stream: the option summary of --help, and the
\* header ("# Produced from ... Input, Policy, Path") followed by the printed set
Usage == [kind |-> "usage", text |-> <<>>]
Dump(infile, maker, path, ps, mode) ==
  [kind |-> "dump", text |-> <<infile, maker, path, to_indented_string(ps, mode)>>]

\* cet::demangle_symbol(typeid(decltype(*policy)).name()): the static type of
\* *policy, whichever maker get_policy built
demangled_policy_type == "cet::filepath_maker"

Return(k) == /\ status' = <<k>>
             /\ ending' = "returned"
             /\ pc' = "done"

\* main, lines 57-72: process the arguments
MainProcessArguments ==
  /\ pc = "start"
  /\ LET res == process_arguments(argv) IN
       /\ cout' = IF res.thrown = help THEN Append(cout, Usage) ELSE cout
       /\ IF res.thrown = ""
            THEN /\ opts' = res.opts
                 /\ pc' = "get_policy"
                 /\ UNCHANGED <<status, ending, cerr>>
          ELSE IF res.thrown = help
            THEN Return(1) /\ UNCHANGED <<opts, cerr>>
          ELSE IF res.thrown = processing
            THEN Return(2) /\ cerr' = Append(cerr, processing) /\ UNCHANGED opts
          ELSE IF res.thrown = config
            THEN Return(3) /\ cerr' = Append(cerr, config) /\ UNCHANGED opts
          ELSE \* a cet::exception of another category is swallowed
               /\ pc' = "get_policy"
               /\ UNCHANGED <<opts, status, ending, cerr>>
  /\ UNCHANGED <<argv, doc, policy, parsed, ofile>>
  /\ UNCHANGED <<tupleVars, tableVars>>

\* main, line 74: no handler encloses the call
MainGetPolicy ==
  /\ pc = "get_policy"
  /\ LET res == get_policy(opts.lookup_policy, opts.lookup_path) IN
       IF res.thrown = ""
         THEN /\ policy' = res.maker
              /\ pc' = "form_pset"
              /\ UNCHANGED <<ending>>
         ELSE /\ ending' = "terminated"
              /\ pc' = "done"
              /\ UNCHANGED <<policy>>
  /\ UNCHANGED <<argv, doc, opts, parsed, status, cout, cerr, ofile>>
  /\ UNCHANGED <<tupleVars, tableVars>>

\* main, lines 76-87
MainFormPset ==
  /\ pc = "form_pset"
  /\ parsed' = TRUE
  /\ LET res == form_pset(opts.input_filename, policy) IN
       IF res.thrown = ""
         THEN /\ pc' = "output"
              /\ UNCHANGED <<status, ending, cerr>>
       ELSE IF res.thrown = "cet::exception"
         THEN Return(4) /\ cerr' = Append(cerr, "cet::exception")
         ELSE Return(5) /\ cerr' = Append(cerr, "Unknown exception")
  /\ UNCHANGED <<argv, doc, opts, policy, cout, ofile>>
  /\ UNCHANGED <<tupleVars, tableVars>>

\* main with the output stream opened before the test of opts.quiet
MainOutput_opens_first ==
  /\ pc = "output"
  /\ LET text == Dump(opts.input_filename, demangled_policy_type, opts.lookup_path,
                      form_pset(opts.input_filename, policy).pset, opts.mode)
     IN IF opts.output_filename = ""
          THEN /\ cout' = IF opts.quiet THEN cout ELSE Append(cout, text)
               /\ UNCHANGED ofile
          ELSE /\ ofile' = [opened |-> TRUE,
                            content |-> IF opts.quiet THEN <<>> ELSE <<text>>]
               /\ UNCHANGED cout
  /\ Return(0)
  /\ UNCHANGED <<argv, doc, opts, policy, parsed, cerr>>
  /\ UNCHANGED <<tupleVars, tableVars>>

\* main, lines 89-101
MainOutput ==
  /\ pc = "output"
  /\ LET text == Dump(opts.input_filename, demangled_policy_type, opts.lookup_path,
                      form_pset(opts.input_filename, policy).pset, opts.mode)
     IN IF opts.quiet
          THEN UNCHANGED <<cout, ofile>>
          ELSE IF opts.output_filename = ""
                 THEN /\ cout' = Append(cout, text)
                      /\ UNCHANGED ofile
                 ELSE /\ ofile' = [opened |-> TRUE, content |-> <<text>>]
                      /\ UNCHANGED cout
  /\ Return(0)
  /\ UNCHANGED <<argv, doc, opts, policy, parsed, cerr>>
  /\ UNCHANGED <<tupleVars, tableVars>>

InitDump ==
  /\ argv \in CommandLines
  /\ doc \in {"ok", "cet::exception", "other"}
  /\ pc = "start"
  /\ opts = Options
  /\ policy = ""
  /\ parsed = FALSE
  /\ ending = "running"
  /\ status = <<>>
  /\ cout = <<>>
  /\ cerr = <<>>
  /\ ofile = [opened |-> FALSE, content |-> <<>>]
  /\ TupleIdle
  /\ TableIdle

NextDump ==
  \/ MainProcessArguments
  \/ MainGetPolicy
  \/ MainFormPset
  \/ MainOutput

SpecDump == InitDump /\ [][NextDump]_vars

-----------------------------------------------------------------------------
(* Claims about fhicl-dump *)

ExitCodes == {<<k>> : k \in 0..5}

\* C1 (as stated): every run ends by returning one of the exit codes 0..5 with
\* the documented meaning: 1 help, 2 "Processing" error, 3 "Configuration"
\* error, 4 cet::exception while forming the ParameterSet, 5 any other
\* exception there, 0 only when the arguments were accepted and the
\* ParameterSet was formed; no failure of any step, the lookup-policy selection
\* included, ends the run otherwise.
C1_ExitCodeOfEveryRun ==
  pc = "done" =>
    LET t == process_arguments(argv).thrown IN
      /\ ending = "returned"
      /\ status \in ExitCodes
      /\ (t = help => status = <<1>>)
      /\ (t = processing => status = <<2>>)
      /\ (t = config => status = <<3>>)
      /\ (t = "" /\ doc = "cet::exception" => status = <<4>>)
      /\ (t = "" /\ doc = "other" => status = <<5>>)
      /\ (status = <<0>> => t = "" /\ parsed /\ doc = "ok")

\* The command line combines output options that exclude each other, or names
\* no input file
Conflict(args) ==
  \/ args.a /\ args.pa
  \/ args.q /\ (args.a \/ args.pa)
  \/ args.c = ""

NothingBuiltOrWritten ==
  /\ policy = ""
  /\ ~parsed
  /\ cout = <<>>
  /\ ~ofile.opened
  /\ ofile.content = <<>>

\* The arguments were accepted: main is past process_arguments and did not
\* return from its handler
Accepted == pc # "start" /\ status \notin {<<1>>, <<2>>, <<3>>}

ModeFollowsSwitches ==
  Accepted =>
    /\ (opts.mode = "annotated" <=> argv.a)
    /\ (opts.mode = "prefix_annotated" <=> argv.pa)
    /\ (opts.mode = "raw" <=> ~argv.a /\ ~argv.pa)

\* C7 (as stated): every command line without --help that combines --annotate
\* with --prefix-annotate, or --quiet with either, or names no input file, ends
\* with exit code 3 before a policy is built, a document parsed or output
\* written; an accepted command line gets the mode its switches name.
C7_ConflictIsConfigError ==
  /\ (~argv.h /\ Conflict(argv)) =>
        /\ NothingBuiltOrWritten
        /\ (pc = "done" => ending = "returned" /\ status = <<3>>)
  /\ ModeFollowsSwitches

\* C7 (amended): the same, for the command lines without --help that the
\* option parser accepts (a malformed command line is a "Processing" error,
\* exit code 2, whatever switches it combines).
C7_WellFormedConflictIsConfigError ==
  /\ (~argv.h /\ ~argv.malformed /\ Conflict(argv)) =>
        /\ NothingBuiltOrWritten
        /\ (pc = "done" => ending = "returned" /\ status = <<3>>)
  /\ ModeFollowsSwitches

\* --annotate with --prefix-annotate and an unknown lookup-policy code: the run
\* ended with 3, the policy selection was never reached
C7_Witness ==
  /\ pc = "done" /\ status = <<3>>
  /\ ~argv.h /\ ~argv.malformed /\ argv.a /\ argv.pa /\ ~argv.q
  /\ argv.c # "" /\ argv.o # "" /\ argv.l = <<MaxPolicyCode>>

\* s holds exactly the dump of the input file's ParameterSet in the mode asked for
IsTheDump(s) ==
  /\ Len(s) = 1
  /\ s[1].kind = "dump"
  /\ s[1].text[1] = argv.c
  /\ s[1].text[4] = to_indented_string(<<"pset", argv.c>>, opts.mode)

\* C10: in quiet mode the document is still parsed and a parse failure ends
\* the run with 4 or 5, and a success ends it with 0 with nothing on standard
\* output and the -o file never opened; in non-quiet mode the dump is written
\* only after the ParameterSet was formed, to the -o file when one is named
\* and to standard output otherwise.
C10_QuietWritesNothing ==
  /\ (opts.quiet /\ pc = "done" /\ ending = "returned") =>
        /\ parsed
        /\ (doc = "ok" => status = <<0>> /\ cout = <<>>
                             /\ ~ofile.opened /\ ofile.content = <<>>)
        /\ (doc = "cet::exception" => status = <<4>>)
        /\ (doc = "other" => status = <<5>>)
  /\ ((\E i \in 1..Len(cout) : cout[i].kind = "dump") \/ ofile.opened) =>
        /\ ~opts.quiet
        /\ parsed /\ doc = "ok"
        /\ pc = "done" /\ status = <<0>>
  /\ (~opts.quiet /\ pc = "done" /\ status = <<0>>) =>
        IF opts.output_filename # ""
          THEN ofile.opened /\ IsTheDump(ofile.content) /\ cout = <<>>
          ELSE IsTheDump(cout) /\ ~ofile.opened /\ ofile.content = <<>>

\* a quiet run with -o that succeeded
C10_Witness ==
  /\ pc = "done" /\ status = <<0>>
  /\ opts.quiet /\ opts.output_filename # ""
  /\ parsed /\ doc = "ok"

-----------------------------------------------------------------------------
(* OptionalTuple<TYPES...> *)

\* tuple arities 0 .. MaxArity
MaxArity == 2
\* the tuple is declared inside 0 .. MaxDepth enclosing tables
MaxDepth == 2

\* std::index_sequence_for<TYPES...>: the slots 0, 1, ..., N-1
index_sequence_for(n) == [k \in 1..n |-> k - 1]

\* Name::sequence_element(i): "[i]"
sequence_element(k) == "[" \o ToString(k) \o "]"

\* a default-constructed shared_ptr, and the one make_shared returns for an
\* element descriptor named nm (its value is the element type's default)
nullptr == [null |-> TRUE, name |-> "", val |-> 0]
make_shared(nm) == [null |-> FALSE, name |-> nm, val |-> 0]

\* NameStackRegistry: a descriptor's base constructor pushes its name,
\* end_of_ctor pops the innermost name
push(stack, nm) == Append(stack, nm)
end_of_ctor(stack) == SubSeq(stack, 1, Len(stack) - 1)

TupleName == "tuple"
Enclosing(d) == [k \in 1..d |-> "table" \o ToString(k)]

\* values an element of the input can have, and values the caller's r holds
ElemValues == {1, 2}
CallerValues == {7}

\* the inputs of a validation, as far as the tuple's key goes: the key is
\* absent, or bound to a sequence of 0 .. n+1 elements
RECURSIVE SeqsUpTo(_, _)
SeqsUpTo(S, n) ==
  IF n = 0 THEN {<<>>}
  ELSE LET shorter == SeqsUpTo(S, n - 1)
       IN  shorter \cup {Append(q, x) : q \in {t \in shorter : Len(t) = n - 1}, x \in S}

TupleInputs(n) ==
  {[present |-> FALSE, elems |-> <<>>]}
    \cup {[present |-> TRUE, elems |-> e] : e \in SeqsUpTo(ElemValues, n + 1)}

TupleUnchanged == UNCHANGED <<dumpVars, tableVars>>

\* OptionalTuple::OptionalTuple, the member initialisers: the SequenceBase
\* constructor registers the name, value_ holds N null pointers, has_value_
\* is false; then finalize_elements starts finalize_tuple_elements(0, slots...)
CtorBase ==
  /\ tpc = "unbuilt"
  /\ nameStack' = push(nameStack, TupleName)
  /\ value_' = [k \in 0..(N - 1) |-> nullptr]
  /\ has_value_' = FALSE
  /\ fin_i' = 0
  /\ pack' = index_sequence_for(N)
  /\ tpc' = "finalize"
  /\ UNCHANGED <<N, stack0, visited_nc, visited_c, done_nc, done_c, r, ret,
                 last, input, valid, ends>>
  /\ TupleUnchanged

\* finalize_tuple_elements(i, elem, others...): make_shared enters the
\* element's constructor, which registers the element's name
FinalizeElemBegin ==
  /\ tpc = "finalize"
  /\ pack # <<>>
  /\ nameStack' = push(nameStack, sequence_element(fin_i))
  /\ tpc' = "elem"
  /\ UNCHANGED <<N, stack0, value_, has_value_, fin_i, pack, visited_nc,
                 visited_c, done_nc, done_c, r, ret, last, input, valid, ends>>
  /\ TupleUnchanged

\* finalize_tuple_elements recursing with i instead of ++i
FinalizeElemEnd_same_index ==
  /\ tpc = "elem"
  /\ nameStack' = end_of_ctor(nameStack)
  /\ value_' = [value_ EXCEPT ![Head(pack)] = make_shared(sequence_element(fin_i))]
  /\ fin_i' = fin_i
  /\ pack' = Tail(pack)
  /\ tpc' = "finalize"
  /\ UNCHANGED <<N, stack0, has_value_, visited_nc, visited_c, done_nc, done_c,
                 r, ret, last, input, valid, ends>>
  /\ TupleUnchanged

\* the element's constructor ends (end_of_ctor), elem is assigned, and
\* finalize_tuple_elements(++i, others...) is entered
FinalizeElemEnd ==
  /\ tpc = "elem"
  /\ nameStack' = end_of_ctor(nameStack)
  /\ value_' = [value_ EXCEPT ![Head(pack)] = make_shared(sequence_element(fin_i))]
  /\ fin_i' = fin_i + 1
  /\ pack' = Tail(pack)
  /\ tpc' = "finalize"
  /\ UNCHANGED <<N, stack0, has_value_, visited_nc, visited_c, done_nc, done_c,
                 r, ret, last, input, valid, ends>>
  /\ TupleUnchanged

\* the constructor without its call of end_of_ctor
CtorEnd_no_pop ==
  /\ tpc = "finalize"
  /\ pack = <<>>
  /\ tpc' = "idle"
  /\ last' = "ctor"
  /\ UNCHANGED <<N, stack0, nameStack, value_, has_value_, fin_i, pack, visited_nc,
                 visited_c, done_nc, done_c, r, ret, input, valid, ends>>
  /\ TupleUnchanged

\* finalize_tuple_elements(i) with an empty pack returns; the constructor
\* body calls NameStackRegistry::end_of_ctor()
CtorEnd ==
  /\ tpc = "finalize"
  /\ pack = <<>>
  /\ nameStack' = end_of_ctor(nameStack)
  /\ ends' = ends + 1
  /\ tpc' = "idle"
  /\ last' = "ctor"
  /\ UNCHANGED <<N, stack0, value_, has_value_, fin_i, pack, visited_nc,
                 visited_c, done_nc, done_c, r, ret, input, valid>>
  /\ TupleUnchanged

\* get_size(): std::tuple_size<ftype>
get_size == N

\* fill_return_element reading std::get<0>(value_) for every slot
RECURSIVE fill_return_element_first(_, _)
fill_return_element_first(I, result) ==
  IF I >= N THEN result
  ELSE fill_return_element_first(I + 1, [result EXCEPT ![I] = value_[0].val])

\* fill_return_element<I>(result): slot I of result gets the value of the
\* I-th element descriptor, then fill_return_element<I+1>
RECURSIVE fill_return_element(_, _)
fill_return_element(I, result) ==
  IF I >= N THEN result
  ELSE fill_return_element(I + 1, [result EXCEPT ![I] = value_[I].val])

\* assemble_rtype(result), on a default-constructed rtype
assemble_rtype == fill_return_element(0, [k \in 0..(N - 1) |-> 0])

\* bool OptionalTuple::operator()(rtype& r) const
Call ==
  /\ tpc = "idle"
  /\ IF ~has_value_
       THEN /\ ret' = <<FALSE>>
            /\ UNCHANGED r
       ELSE /\ r' = assemble_rtype
            /\ ret' = <<TRUE>>
  /\ last' = "call"
  /\ UNCHANGED <<N, stack0, nameStack, value_, has_value_, tpc, fin_i, pack,
                 visited_nc, visited_c, done_nc, done_c, input, valid, ends>>
  /\ TupleUnchanged

\* do_set_value(pset, trimParents): the new has_value_
do_set_value == TRUE

\* Table::validate_ParameterSet reaches the tuple: when the tuple's key is
\* absent from the input the optional parameter is skipped; when it is present
\* the mutable walker walks the elements (do_walk_elements)
ValidateBegin ==
  /\ tpc = "idle"
  /\ \E inp \in TupleInputs(N) :
       /\ input' = inp
       /\ IF inp.present
            THEN /\ tpc' = "walk_nc"
                 /\ pack' = index_sequence_for(N)
                 /\ visited_nc' = <<>>
                 /\ done_nc' = FALSE
                 /\ UNCHANGED <<valid, last>>
            ELSE /\ valid' = TRUE
                 /\ last' = "validate"
                 /\ UNCHANGED <<tpc, pack, visited_nc, done_nc>>
  /\ UNCHANGED <<N, stack0, nameStack, value_, has_value_, fin_i, visited_c,
                 done_c, r, ret, ends>>
  /\ TupleUnchanged

\* the validating walker applied to an element: the element takes its value
\* from the input when the input has an element at that position
pw_set(elem, k) ==
  IF k < Len(input.elems) THEN [elem EXCEPT !.val = input.elems[k + 1]] ELSE elem

\* visit_element(pw, elem, others...), mutable flavor: pw(*elem), then the others
visit_element_nc ==
  /\ tpc = "walk_nc"
  /\ pack # <<>>
  /\ visited_nc' = Append(visited_nc, Head(pack))
  /\ value_' = [value_ EXCEPT ![Head(pack)] = pw_set(value_[Head(pack)], Head(pack))]
  /\ pack' = Tail(pack)
  /\ UNCHANGED <<N, stack0, nameStack, has_value_, tpc, fin_i, visited_c,
                 done_nc, done_c, r, ret, last, input, valid, ends>>
  /\ TupleUnchanged

\* visit_element(pw) with an empty pack returns; the walk is over, the
\* validation calls do_set_value and resolves: the input must have had
\* exactly get_size() elements
ValidateEnd ==
  /\ tpc = "walk_nc"
  /\ pack = <<>>
  /\ has_value_' = do_set_value
  /\ valid' = (Len(input.elems) = get_size)
  /\ done_nc' = TRUE
  /\ tpc' = "idle"
  /\ last' = "validate"
  /\ UNCHANGED <<N, stack0, nameStack, value_, fin_i, pack, visited_nc,
                 visited_c, done_c, r, ret, input, ends>>
  /\ TupleUnchanged

\* do_walk_elements(PW_const&) const, as print_reference starts it
WalkBegin_c ==
  /\ tpc = "idle"
  /\ tpc' = "walk_c"
  /\ pack' = index_sequence_for(N)
  /\ visited_c' = <<>>
  /\ done_c' = FALSE
  /\ UNCHANGED <<N, stack0, nameStack, value_, has_value_, fin_i, visited_nc,
                 done_nc, r, ret, last, input, valid, ends>>
  /\ TupleUnchanged

\* visit_element const recursing past the element after elem
visit_element_c_skips ==
  /\ tpc = "walk_c"
  /\ pack # <<>>
  /\ visited_c' = Append(visited_c, Head(pack))
  /\ pack' = IF Len(pack) >= 2 THEN Tail(Tail(pack)) ELSE Tail(pack)
  /\ UNCHANGED <<N, stack0, nameStack, value_, has_value_, tpc, fin_i,
                 visited_nc, done_nc, done_c, r, ret, last, input, valid, ends>>
  /\ TupleUnchanged

\* visit_element(pw, elem, others...) const: pw(*elem), then the others
visit_element_c ==
  /\ tpc = "walk_c"
  /\ pack # <<>>
  /\ visited_c' = Append(visited_c, Head(pack))
  /\ pack' = Tail(pack)
  /\ UNCHANGED <<N, stack0, nameStack, value_, has_value_, tpc, fin_i,
                 visited_nc, done_nc, done_c, r, ret, last, input, valid, ends>>
  /\ TupleUnchanged

\* visit_element(pw) const with an empty pack returns; the walk is over
WalkEnd_c ==
  /\ tpc = "walk_c"
  /\ pack = <<>>
  /\ done_c' = TRUE
  /\ tpc' = "idle"
  /\ last' = "walk_c"
  /\ UNCHANGED <<N, stack0, nameStack, value_, has_value_, fin_i, pack,
                 visited_nc, visited_c, done_nc, r, ret, input, valid, ends>>
  /\ TupleUnchanged

InitTuple ==
  /\ N \in 0..MaxArity
  /\ stack0 \in {Enclosing(d) : d \in 0..MaxDepth}
  /\ nameStack = stack0
  /\ value_ = <<>>
  /\ has_value_ = FALSE
  /\ tpc = "unbuilt"
  /\ fin_i = 0
  /\ pack = <<>>
  /\ visited_nc = <<>>
  /\ visited_c = <<>>
  /\ done_nc = FALSE
  /\ done_c = FALSE
  /\ r \in [0..(N - 1) -> CallerValues]
  /\ ret = <<>>
  /\ last = ""
  /\ input = [present |-> FALSE, elems |-> <<>>]
  /\ valid = FALSE
  /\ ends = 0
  /\ DumpIdle
  /\ TableIdle

NextTuple ==
  \/ CtorBase
  \/ FinalizeElemBegin
  \/ FinalizeElemEnd
  \/ CtorEnd
  \/ Call
  \/ ValidateBegin
  \/ visit_element_nc
  \/ ValidateEnd
  \/ WalkBegin_c
  \/ visit_element_c
  \/ WalkEnd_c

SpecTuple == InitTuple /\ [][NextTuple]_vars

-----------------------------------------------------------------------------
(* Claims about OptionalTuple *)

\* the constructor has returned
Built == tpc \in {"idle", "walk_nc", "walk_c"}

\* a step of operator()
CallStep == tpc = "idle" /\ tpc' = "idle" /\ last' = "call"

\* C4: operator()(r) has two outcomes: without a value it returns false and
\* leaves r as it was; with a value it returns true and slot I of r holds the
\* value of the I-th element descriptor, for every I; and as long as no
\* do_set_value has happened since the construction it reports absent.
C4_AccessorTwoOutcomes ==
  [][CallStep =>
       /\ IF has_value_
            THEN /\ ret' = <<TRUE>>
                 /\ DOMAIN r' = 0..(N - 1)
                 /\ \A k \in 0..(N - 1) : r'[k] = value_[k].val
            ELSE /\ ret' = <<FALSE>>
                 /\ r' = r
       /\ (~done_nc => ret' = <<FALSE>> /\ r' = r)]_vars

\* operator() returned true and filled r with two different element values
C4_Witness ==
  /\ tpc = "idle" /\ last = "call" /\ ret = <<TRUE>>
  /\ N >= 2
  /\ r[0] = value_[0].val /\ r[1] = value_[1].val /\ r[0] # r[1]

\* C5 (as stated): after a validation of an input without the tuple's key the
\* accessor yields absent, after a validation of an input with the key it
\* yields present with the input's values, whatever validations came before;
\* and the presence flag changes in a validation only.
C5_PresenceFollowsLastInput ==
  /\ [](tpc = "idle" =>
          /\ (has_value_ <=> input.present)
          /\ (input.present /\ valid =>
                \A k \in 0..(N - 1) : assemble_rtype[k] = input.elems[k + 1]))
  /\ [][has_value_' # has_value_ => tpc = "walk_nc"]_vars

\* C6: after construction the tuple holds exactly N element descriptors, none
\* of them null, and the one in slot i is named Name::sequence_element(i).
C6_ElementsNamedByIndex ==
  Built =>
    /\ DOMAIN value_ = 0..(N - 1)
    /\ Cardinality(DOMAIN value_) = get_size
    /\ \A k \in 0..(N - 1) :
         /\ ~value_[k].null
         /\ value_[k].name = "[" \o ToString(k) \o "]"

\* a tuple of two or more elements right after its construction
C6_Witness ==
  /\ tpc = "idle" /\ last = "ctor"
  /\ N >= 2
  /\ ~value_[N - 1].null

\* the slots 0, 1, ..., up to the length of log, each once and in order
InPositionalOrder(log) ==
  /\ Len(log) <= N
  /\ \A k \in 1..Len(log) : log[k] = k - 1

\* C8: a walk of either flavor applies the walker to every element once, in
\* the order 0, 1, ..., N-1, and stops; both flavors visit the same elements
\* in the same order; a tuple of arity 0 visits nothing.
C8_WalkVisitsEachOnceInOrder ==
  /\ InPositionalOrder(visited_nc)
  /\ InPositionalOrder(visited_c)
  /\ (done_nc => Len(visited_nc) = N)
  /\ (done_c => Len(visited_c) = N)
  /\ (done_nc /\ done_c => visited_nc = visited_c)
  /\ (N = 0 => visited_nc = <<>> /\ visited_c = <<>>)

\* both flavors have walked a tuple of two or more elements
C8_Witness ==
  /\ tpc = "idle" /\ done_nc /\ done_c
  /\ N >= 2
  /\ Len(visited_nc) = N /\ Len(visited_c) = N

\* C9: during the construction the name stack is what it was before, then the
\* tuple's name, then at most the name of the element under construction; the
\* constructor calls end_of_ctor once, after the last element, and when it has
\* returned the stack is what it was before the construction.
C9_NameStackIsLIFO ==
  /\ (tpc = "unbuilt" => nameStack = stack0 /\ ends = 0)
  /\ (tpc = "finalize" =>
        /\ nameStack = stack0 \o <<TupleName>>
        /\ ends = 0)
  /\ (tpc = "elem" =>
        /\ nameStack = stack0 \o <<TupleName, "[" \o ToString(fin_i) \o "]">>
        /\ ends = 0)
  /\ (Built =>
        /\ nameStack = stack0
        /\ ends = 1
        /\ \A k \in 0..(N - 1) : ~value_[k].null)

\* a tuple of two or more elements, declared inside a table, built
C9_Witness ==
  /\ tpc = "idle" /\ last = "ctor" /\ ends = 1
  /\ N >= 2
  /\ Len(stack0) >= 1
  /\ nameStack = stack0

-----------------------------------------------------------------------------
(* Table<T> with a bounded sequence or a tuple that has a default *)

\* input sequences have 0 .. MaxLen elements
MaxLen == 3

\* primitive values of a ParameterSet, and a value that is no primitive
Str(t) == [kind |-> "string", str |-> t, num |-> 0]
Uns(n) == [kind |-> "unsigned", str |-> "", num |-> n]
NestedSeq == [kind |-> "sequence", str |-> "", num |-> 0]

\* ArrayConfig with the two default composers in the other order
ArrayConfig_swapped ==
  [key |-> "composers", types |-> <<"string", "string">>,
   dflt |-> <<Str("Elgar"), Str("Mahler")>>]

\* struct ArrayConfig: Sequence<string, 2> composers{Name{"composers"}, {"Mahler", "Elgar"}}
ArrayConfig ==
  [key |-> "composers", types |-> <<"string", "string">>,
   dflt |-> <<Str("Mahler"), Str("Elgar")>>]

\* TupleConfig declared with the first slot only
TupleConfig_one_slot ==
  [key |-> "ages", types |-> <<"string">>, dflt |-> <<Str("David")>>]

\* struct TupleConfig: Tuple<string, unsigned> ages{Name{"ages"}, {"David"s, 9}}
TupleConfig ==
  [key |-> "ages", types |-> <<"string", "unsigned">>,
   dflt |-> <<Str("David"), Uns(9)>>]

Descriptor(sch) == IF sch = "ArrayConfig" THEN ArrayConfig ELSE TupleConfig

Arity(sch) == Len(Descriptor(sch).types)

\* the documents: the descriptor's key is absent or bound to a value, which
\* is a sequence of elements or a single primitive; another key ("extra") may
\* be bound too
InputElems == {Str("Jenny"), Uns(7), NestedSeq}

ParameterSets ==
  {[present |-> FALSE, isseq |-> FALSE, elems |-> <<>>, extra |-> x] : x \in BOOLEAN}
    \cup {[present |-> TRUE, isseq |-> FALSE, elems |-> <<Str("Jenny")>>, extra |-> x] :
            x \in BOOLEAN}
    \cup {[present |-> TRUE, isseq |-> TRUE, elems |-> e, extra |-> x] :
            e \in SeqsUpTo(InputElems, MaxLen), x \in BOOLEAN}

Min(x, y) == IF x < y THEN x ELSE y

\* the keys of the input matched by no descriptor and not in keysToIgnore
unused_keys(ps, ignore) == (IF ps.extra THEN {"extra"} ELSE {}) \ ignore

\* the diagnostics of a validation of ps against descriptor d
validation_errors(d, ps, ignore) ==
  LET n == Len(d.types)
      m == Min(Len(ps.elems), n)
  IN  (IF unused_keys(ps, ignore) # {} THEN {"ExtraKeys"} ELSE {})
        \cup (IF ps.present /\ ~ps.isseq THEN {"TypeMismatch"} ELSE {})
        \cup (IF ps.present /\ ps.isseq /\ Len(ps.elems) # n
                THEN {"ArityMismatch"} ELSE {})
        \cup (IF ps.present /\ ps.isseq
                   /\ \E k \in 1..m : ps.elems[k].kind # d.types[k]
                THEN {"TypeMismatch"} ELSE {})

\* the value slot after the set phase: the elements of a present sequence
\* replace those of the slot, position by position
set_value(d, ps, old) ==
  IF ps.present /\ ps.isseq
    THEN [k \in 1..Len(d.types) |->
            IF k <= Len(ps.elems) THEN ps.elems[k] ELSE old[k]]
    ELSE old

\* the typed value an accessor yields for an element
element_value(v) == IF v.kind = "string" THEN v.str ELSE v.num

\* composers(i), ages.get<I>()
at(k) == element_value(slot[k + 1])

TableUnchanged == UNCHANGED <<dumpVars, tupleVars>>

\* validateConfig<T>(cfg): the ParameterSet is made and the Table<T> is
\* constructed; the descriptor's default populates its value slot
MakeTable ==
  /\ vpc = "start"
  /\ slot' = Descriptor(schema).dflt
  /\ vpc' = "constructed"
  /\ UNCHANGED <<schema, pset, keysToIgnore, outcome, errors>>
  /\ TableUnchanged

\* validatedConfig.validate_ParameterSet(ps, keysToIgnore)
validate_ParameterSet ==
  /\ vpc = "constructed"
  /\ LET es == validation_errors(Descriptor(schema), pset, keysToIgnore) IN
       /\ errors' = es
       /\ outcome' = IF es = {} THEN "ok" ELSE "validationException"
  /\ slot' = set_value(Descriptor(schema), pset, slot)
  /\ vpc' = "done"
  /\ UNCHANGED <<schema, pset, keysToIgnore>>
  /\ TableUnchanged

InitTable ==
  /\ schema \in {"ArrayConfig", "TupleConfig"}
  /\ pset \in ParameterSets
  /\ keysToIgnore \in {{}, {"extra"}}
  /\ slot = <<>>
  /\ outcome = ""
  /\ errors = {}
  /\ vpc = "start"
  /\ DumpIdle
  /\ TupleIdle

NextTable ==
  \/ MakeTable
  \/ validate_ParameterSet

SpecTable == InitTable /\ [][NextTable]_vars

-----------------------------------------------------------------------------
(* Claims about Table validation *)

WellTyped(sch, ps) ==
  /\ ps.isseq
  /\ Len(ps.elems) = Arity(sch)
  /\ \A k \in 1..Arity(sch) : ps.elems[k].kind = Descriptor(sch).types[k]

\* C2: after a successful validation of an input without the descriptor's key
\* every positional accessor yields the element of the default (composers:
\* "Mahler", "Elgar"; ages: "David", 9); with the key present, it yields the
\* element of the input.
C2_DefaultUnlessPresent ==
  (vpc = "done" /\ outcome = "ok") =>
    IF ~pset.present
      THEN /\ \A k \in 0..(Arity(schema) - 1) :
                at(k) = element_value(Descriptor(schema).dflt[k + 1])
           /\ (schema = "ArrayConfig" => at(0) = "Mahler" /\ at(1) = "Elgar")
           /\ (schema = "TupleConfig" => at(0) = "David" /\ at(1) = 9)
      ELSE /\ Len(pset.elems) = Arity(schema)
           /\ \A k \in 0..(Arity(schema) - 1) :
                at(k) = element_value(pset.elems[k + 1])

\* ages: [Jenny, 7] was validated and overrides the default
C2_Witness ==
  /\ vpc = "done" /\ outcome = "ok"
  /\ schema = "TupleConfig"
  /\ pset.present /\ pset.elems = <<Str("Jenny"), Uns(7)>>
  /\ at(0) = "Jenny" /\ at(1) = 7

ArityIsChecked ==
  vpc = "done" =>
    /\ (pset.present /\ pset.isseq /\ Len(pset.elems) # Arity(schema) =>
          outcome = "validationException" /\ "ArityMismatch" \in errors)
    /\ (schema = "ArrayConfig" /\ pset.present /\ pset.elems = <<Str("Jenny")>> =>
          outcome = "validationException")
    /\ (schema = "TupleConfig" /\ pset.present /\ pset.elems = <<Str("Jenny")>> =>
          outcome = "validationException")

\* C3 (as stated): for every input, the validation succeeds iff the key is
\* absent (the default exists) or its value is a sequence of exactly N
\* elements of the declared types; a present sequence of another length fails
\* with a validationException (ArityMismatch), default or not.
C3_ValidIffAbsentOrExactArity ==
  /\ vpc = "done" =>
       (outcome = "ok" <=> (~pset.present \/ WellTyped(schema, pset)))
  /\ ArityIsChecked

\* C3 (amended): the same, for the inputs whose other keys are all in
\* keysToIgnore (a key matched by no descriptor and not ignored fails the
\* validation whatever the sequence holds).
C3_ValidIffAbsentOrExactArityNoExtraKeys ==
  /\ (vpc = "done" /\ unused_keys(pset, keysToIgnore) = {}) =>
       (outcome = "ok" <=> (~pset.present \/ WellTyped(schema, pset)))
  /\ ArityIsChecked

\* composers: [Jenny] was validated against Sequence<string, 2> and rejected
C3_Witness ==
  /\ vpc = "done" /\ outcome = "validationException"
  /\ schema = "ArrayConfig"
  /\ pset.present /\ pset.isseq /\ pset.elems = <<Str("Jenny")>> /\ ~pset.extra
  /\ errors = {"ArityMismatch"}

====
